---- MODULE Spec2Model ----
(***************************************************************************)
(* DevAssist (src/nau.py): the extension orchestration and aggregation     *)
(* pipeline.  One DevAssist object is constructed and main() drives        *)
(* run(): initialize (load_config, load_ai_provider, load_extensions),     *)
(* collect_data, process_data (query_ai) and the printing of the summary.  *)
(*                                                                         *)
(* Python dicts keep insertion order, so self.extensions and the collected *)
(* data are sequences of records with unique names.  What the file system, *)
(* the imported modules and the remote services answer is input: it is     *)
(* chosen in Init (files) or at the step that asks (imports, calls).       *)
(* A connector module that imports defines initialize, as the bundled      *)
(* modules and the template of install_extension do.                       *)
(***************************************************************************)
EXTENDS Integers, Sequences, FiniteSets, TLC

\* Number of entries of config["extensions"] in the configuration file.
NumExt == 3

\* Number of items the loop body of load_extensions is run on in the
\* specification of the registry.
MaxEntries == 2

\* Names a configuration file may hold, in the order of the file; the first
\* three are those of create_default_config.
AllNames == <<"github", "jira", "slack", "custom">>

ExtOrder == SubSeq(AllNames, 1, NumExt)

ExtNames == {ExtOrder[i] : i \in 1..NumExt}

\* Names the package bundles an implementation for (src/extensions/); any
\* other name can only have a file in the user's extension directory.
BuiltinNames == {"github", "jira", "slack"}

\* AIConfig.provider values: the three known ones and one unknown.
Providers == {"local", "claude", "openai", "other"}

\* What a connector module's collect_data() does when called: raises,
\* returns a falsy value ({} / None / []), returns an {"error": ...} dict,
\* returns a non-empty structured value, or never returns (a request
\* without timeout that is never answered).
CollectOutcomes == {"raise", "empty", "error", "data", "hang"}

\* What importing and initializing a connector module does.
LoadOutcomes == {"import_error", "init_error", "ok"}

\* What the backend's model or endpoint does once it is contacted.
BackendOutcomes == {"raise", "text"}

NoModule == "None"

\* The "config" mapping of an extension block: the one a file holds for a
\* name, another one, and the {} that Extension.from_dict defaults to.
ConfigValues == {"cfg_a", "cfg_b"}

EmptyConfig == "{}"

\* The keys an extension block of the file can hold.
BlockKeys == {"enabled", "config"}

\* The globals of a connector module as its top-level code sets them:
\* _config = {} (a mapping of the module's own) and _session = None; no
\* remote request was made.
ModuleGlobals == [config_ref |-> "own", session |-> "None", requested |-> FALSE]

\* No connector module is run on its own.
NoRemote == [conn |-> "None"]

\* collect_data() of a module run on its own has not returned.
NoReturn == [kind |-> "None"]

\* self.ai_config before load_config ran (None in the source).
NoAIConfig == [provider |-> "None", api_key |-> "", local_model_path |-> ""]

\* The AIConfig records a configuration file can give: api_key and
\* local_model_path are either missing/empty or set.
AIConfigs == [provider : Providers, api_key : {"", "key"},
              local_model_path : {"", "/models/llama3"}]

\* No prompt was formatted yet.
NoPrompt == [framed |-> FALSE, sections |-> <<>>, task |-> "None"]

\* The "ai" block of create_default_config: the local provider with a model
\* path and no api_key.
DefaultAIConfig ==
    [provider |-> "local", api_key |-> "", local_model_path |-> "/models/llama3"]

\* The default block, and the default block with a provider nobody knows.
DefaultAIConfigs ==
    {DefaultAIConfig, [DefaultAIConfig EXCEPT !.provider = "other"]}

NoDataMsg == "No data collected from extensions."

TaskPrompt == "You are an AI assistant for developers. ..."

VARIABLES
    pc,             \* position of the process in main() / run()
    config,         \* self.config["extensions"]: sequence of blocks
                    \* [name, keys, enabled, config]
    ai_config,      \* self.ai_config
    extensions,     \* self.extensions: sequence of
                    \* [name, enabled, config, module]
    initialized,    \* self.initialized
    idx,            \* position of the running for loop
    data,           \* the dict collect_data builds: sequence of [name, value]
    summary,        \* what process_data returned
    output,         \* what run() printed
    exitCode,       \* exit status of the process, -1 while running
    builtinFiles,   \* names n for which <package>/extensions/n.py exists
    userFiles,      \* names n for which ~/.devassist/extensions/n.py exists
    initCalled,     \* names whose module.initialize(config) was called
    loadAttempts,   \* sequence of [name, path, outcome]: the calls of
                    \* _load_extension_module and how each ended
    collected,      \* name -> outcome of its collect_data() call in this round
    collectCalls,   \* sequence of the names whose collect_data() was called
    cli,            \* the action main() dispatched to, "none" when run() is
                    \* called directly
    callNo,         \* number of further calls made on the same DevAssist object
    mods,           \* name -> the globals of the connector module of that name:
                    \* [config_ref, session, requested]
    remote,         \* what a connector module run on its own is given: its
                    \* name, its config and what each remote endpoint answers
    returned,       \* what that module's collect_data() returned
    backendCalls,   \* sequence of the calls of backend implementations made
    requests,       \* number of requests issued to a model or endpoint
    promptSent      \* the formatted prompt handed to the backend

vars == <<pc, config, ai_config, extensions, initialized, idx, data, summary,
          output, exitCode, builtinFiles, userFiles, initCalled, loadAttempts,
          collected, collectCalls, backendCalls, requests, promptSent,
          cli, callNo, mods, remote, returned>>

envVars == <<builtinFiles, userFiles>>

\* What only the command-line actions and the bundled connector modules use.
cliVars == <<cli, callNo, mods, remote, returned>>

----
\* Helpers on ordered dicts

Keys(d) == {d[i].name : i \in 1..Len(d)}

Lookup(d, n) == d[CHOOSE i \in 1..Len(d) : d[i].name = n]

\* Variant of DictSet that keeps the entry a name already has (setdefault).
DictSet_KeepFirst(d, rec) ==
    IF rec.name \in Keys(d) THEN d ELSE Append(d, rec)

\* d[name] = rec on a dict: replaces the entry of that name in place, or
\* appends a new one.
DictSet(d, rec) ==
    IF rec.name \in Keys(d)
    THEN [i \in 1..Len(d) |-> IF d[i].name = rec.name THEN rec ELSE d[i]]
    ELSE Append(d, rec)

----
\* DevAssist.__init__

Construct ==
    /\ pc = "idle"
    /\ config = <<>>
    /\ ai_config = NoAIConfig
    /\ extensions = <<>>
    /\ initialized = FALSE
    /\ idx = 0
    /\ data = <<>>
    /\ summary = "None"
    /\ output = "None"
    /\ exitCode = -1
    /\ initCalled = {}
    /\ loadAttempts = <<>>
    /\ collected = [n \in ExtNames |-> "none"]
    /\ collectCalls = <<>>
    /\ cli = "none"
    /\ callNo = 0
    /\ mods = [n \in ExtNames |-> ModuleGlobals]
    /\ remote = NoRemote
    /\ returned = NoReturn
    /\ backendCalls = <<>>
    /\ requests = 0
    /\ promptSent = NoPrompt

\* A fresh DevAssist with any layout of bundled and user-supplied files.
Init ==
    /\ Construct
    /\ builtinFiles \in SUBSET (ExtNames \cap BuiltinNames)
    /\ userFiles \in SUBSET ExtNames

\* A fresh DevAssist where every configured name has a user-supplied file
\* and nothing is bundled.
InitUserFiles ==
    /\ Construct
    /\ builtinFiles = {}
    /\ userFiles = ExtNames

----
\* run() -> initialize()

\* Variant of AlreadyInitialized without the test at the top of initialize().
AlreadyInitialized_Never(flag) == FALSE

\* "if self.initialized: return" at the top of initialize().
AlreadyInitialized(flag) == flag

\* run() calls initialize(), which returns at once when already initialized.
Run ==
    /\ pc = "idle"
    /\ pc' = IF AlreadyInitialized(initialized) THEN "collect_data" ELSE "load_config"
    /\ idx' = IF AlreadyInitialized(initialized) THEN 1 ELSE idx
    /\ data' = <<>>
    /\ UNCHANGED <<config, ai_config, extensions, initialized, summary,
                   output, exitCode, envVars, cliVars, initCalled, loadAttempts,
                   collected, collectCalls, backendCalls, requests, promptSent>>

\* The orders in which a file can list the connectors.
Orders ==
    {o \in [1..NumExt -> ExtNames] : \A n \in ExtNames : \E i \in 1..NumExt : o[i] = n}

\* load_config(): the file's content is input; ais are the "ai" blocks it
\* may hold, orders the orders in which it may list the connectors and cfgs
\* the "config" mappings a connector's block may hold.
LoadConfigWith(ais, orders, cfgs) ==
    /\ pc = "load_config"
    /\ \E ai \in ais, order \in orders, en \in [ExtNames -> BOOLEAN],
          cfg \in [ExtNames -> cfgs] :
          /\ config' = [i \in 1..NumExt |->
                          [name |-> order[i], keys |-> BlockKeys,
                           enabled |-> en[order[i]], config |-> cfg[order[i]]]]
          /\ ai_config' = ai
    /\ pc' = "load_ai_provider"
    /\ UNCHANGED <<extensions, initialized, idx, data, summary, output,
                   exitCode, envVars, cliVars, initCalled, loadAttempts, collected, collectCalls,
                   backendCalls, requests, promptSent>>

\* load_config() of a file whose connector blocks hold the "config" mappings
\* of create_default_config.
LoadConfigOf(ais, orders) == LoadConfigWith(ais, orders, {"cfg_a"})

\* load_config() of a file that lists the connectors in the order of
\* create_default_config.
LoadConfigFrom(ais) == LoadConfigOf(ais, {ExtOrder})

\* load_config() of a file with a default "ai" block and any "extensions".
LoadConfig == LoadConfigFrom(DefaultAIConfigs)

\* load_config() of a file with any "ai" block and any "extensions".
LoadConfigAnyAI == LoadConfigFrom(AIConfigs)

\* load_config() of a file with the default "ai" block that lists the
\* connectors in any order.
LoadConfigAnyOrder == LoadConfigOf({DefaultAIConfig}, Orders)

\* Variant of KnownProvider without the final else branch of load_ai_provider.
KnownProvider_Any(provider) == TRUE

\* The providers load_ai_provider has a branch for.
KnownProvider(provider) == provider \in {"local", "claude", "openai"}

\* load_ai_provider(): sys.exit(1) on an unknown provider or a failed import.
LoadAiProvider ==
    /\ pc = "load_ai_provider"
    /\ \E installed \in BOOLEAN :
          IF KnownProvider(ai_config.provider) /\ installed
          THEN /\ pc' = "load_extensions"
               /\ idx' = 1
               /\ exitCode' = exitCode
          ELSE /\ pc' = "exit"
               /\ idx' = idx
               /\ exitCode' = 1
    /\ UNCHANGED <<config, ai_config, extensions, initialized, data, summary,
                   output, envVars, cliVars, initCalled, loadAttempts, collected, collectCalls,
                   backendCalls, requests, promptSent>>

----
\* load_extensions()

\* Extension.from_dict({"name": name, **block}): data.get("enabled", True),
\* data.get("config", {}), and module = None.
Extension_from_dict(d) ==
    [name |-> d.name,
     enabled |-> IF "enabled" \in d.keys THEN d.enabled ELSE TRUE,
     config |-> IF "config" \in d.keys THEN d.config ELSE EmptyConfig,
     module |-> NoModule]

\* Variant of LocatePath that looks in the user's directory first.
LocatePath_UserFirst(name) ==
    IF name \in userFiles THEN "user"
    ELSE IF name \in builtinFiles THEN "builtin"
    ELSE "none"

\* Variant of LocatePath without the final else branch: the user's path is
\* taken without asking whether it exists.
LocatePath_NoExistsTest(name) ==
    IF name \in builtinFiles THEN "builtin" ELSE "user"

\* The if / elif / else on builtin_path.exists() and user_path.exists().
LocatePath(name) ==
    IF name \in builtinFiles THEN "builtin"
    ELSE IF name \in userFiles THEN "user"
    ELSE "none"

\* Variant of ShouldLoad without the enabled test.
ShouldLoad_Always(ext_config) == TRUE

\* The enabled test at the top of the loop body.
ShouldLoad(ext_config) == ext_config.enabled

\* Variant of LoadExtensionModule that sets extension.module before it
\* calls initialize.
LoadExtensionModule_AssignEarly(extension, path, outcome) ==
    IF outcome \in {"ok", "init_error"}
    THEN [extension EXCEPT !.module = path]
    ELSE extension

\* _load_extension_module(extension, path): any exception is caught and
\* logged, and extension.module is set only when nothing raised.
LoadExtensionModule(extension, path, outcome) ==
    IF outcome = "ok"
    THEN [extension EXCEPT !.module = path]
    ELSE extension

\* Variant of CaughtByLoader whose try block ends before the initialize call.
CaughtByLoader_ImportOnly(outcome) == outcome = "import_error"

\* The try / except Exception of _load_extension_module spans the import
\* and the initialize call: it catches a failure of either.
CaughtByLoader(outcome) == outcome \in {"import_error", "init_error"}

\* Whether module.initialize(extension.config) was called.
InitializeCalled(outcome) == outcome \in {"init_error", "ok"}

\* The body of the for loop of load_extensions for the item d = (name, block)
\* of the "extensions" mapping.
LoadItem(d) ==
    /\ LET ext_config == Extension_from_dict(d)
           path == LocatePath(ext_config.name)
       IN IF ~ShouldLoad(ext_config) \/ path = "none"
          THEN /\ idx' = idx + 1
               /\ UNCHANGED <<pc, exitCode, extensions, initCalled, loadAttempts>>
          ELSE \E outcome \in LoadOutcomes :
                 /\ initCalled' = IF InitializeCalled(outcome)
                                  THEN initCalled \cup {ext_config.name}
                                  ELSE initCalled
                 /\ loadAttempts' = Append(loadAttempts,
                                      [name |-> ext_config.name, path |-> path,
                                       outcome |-> outcome])
                 /\ IF outcome = "ok" \/ CaughtByLoader(outcome)
                    THEN /\ extensions' = DictSet(extensions,
                                    LoadExtensionModule(ext_config, path, outcome))
                         /\ idx' = idx + 1
                         /\ UNCHANGED <<pc, exitCode>>
                    ELSE \* an uncaught exception ends the process
                         /\ pc' = "exit"
                         /\ exitCode' = 1
                         /\ UNCHANGED <<extensions, idx>>
    /\ UNCHANGED <<ai_config, initialized, data, summary, output,
                   envVars, collected, collectCalls, backendCalls, requests,
                   promptSent>>

\* One iteration of the for loop of load_extensions.
LoadExtensions ==
    /\ pc = "load_extensions"
    /\ idx <= Len(config)
    /\ LoadItem(config[idx])
    /\ UNCHANGED <<config, cliVars>>

\* The extension blocks a file can hold for a name: both keys, or none of
\* them (then "enabled" and "config" are placeholders from_dict never reads).
ExtensionBlocks ==
    [keys : {BlockKeys}, enabled : BOOLEAN, config : ConfigValues]
        \cup {[keys |-> {}, enabled |-> FALSE, config |-> "cfg_a"]}

\* The loop body run on one more item. load_extensions run again on the same
\* object (on a re-read configuration) hands the body a name it has already
\* seen, so the items seen so far, kept in config, may repeat a name.
RegisterEntry ==
    /\ pc = "load_extensions"
    /\ idx = Len(config) + 1
    /\ Len(config) < MaxEntries
    /\ \E name \in ExtNames, block \in ExtensionBlocks :
          LET d == [name |-> name, keys |-> block.keys,
                    enabled |-> block.enabled, config |-> block.config]
          IN /\ config' = Append(config, d)
             /\ LoadItem(d)
    /\ UNCHANGED cliVars

\* The loop is over: initialize() sets initialized and run() calls collect_data.
InitializeDone ==
    /\ pc = "load_extensions"
    /\ idx > Len(config)
    /\ initialized' = TRUE
    /\ pc' = "collect_data"
    /\ idx' = 1
    /\ data' = <<>>
    /\ UNCHANGED <<config, ai_config, extensions, summary, output,
                   exitCode, envVars, cliVars, initCalled, loadAttempts, collected, collectCalls,
                   backendCalls, requests, promptSent>>

----
\* collect_data()

\* Variant of IsActive without the module test.
IsActive_EnabledOnly(extension) == extension.enabled

\* The guard of the loop body: "if not extension.enabled or not
\* extension.module: continue".
IsActive(extension) == extension.enabled /\ extension.module # NoModule

\* Variant of Stored without the truthiness test: any returned value is kept.
Stored_AnyReturn(outcome) == outcome \in {"empty", "error", "data"}

\* "if extension_data: data[name] = extension_data": a value is stored only
\* when collect_data() returned and the value is truthy.
Stored(outcome) == outcome \in {"error", "data"}

\* Variant of CollectOne whose exception handler gives up the round: what
\* was collected so far is lost when one collect_data() raises.
CollectOne_AbortOnRaise(d, name, has_attr, outcome) ==
    IF has_attr /\ outcome = "raise" THEN <<>>
    ELSE IF has_attr /\ outcome \in {"error", "data"}
    THEN DictSet(d, [name |-> name, value |-> outcome])
    ELSE d

\* The body of the try block for one extension: has_attr is
\* hasattr(extension.module, "collect_data"), outcome what the call does.
CollectOne(d, name, has_attr, outcome) ==
    IF has_attr /\ Stored(outcome)
    THEN DictSet(d, [name |-> name, value |-> outcome])
    ELSE d

\* Variant of Returns for a call that is given up after a timeout.
Returns_Always(outcome) == TRUE

\* Whether the call extension.module.collect_data() comes back, by return or
\* by exception: it is a plain call in the thread of run().
Returns(outcome) == outcome # "hang"

\* Variant of NextIndex that asks a connector again after it raised.
NextIndex_RetryOnRaise(i, outcome) == IF outcome = "raise" THEN i ELSE i + 1

\* The for loop moves on to the next extension whatever the call did.
NextIndex(i, outcome) == i + 1

\* Variant of RegistryAfterCollect that takes the module handle away from a
\* connector whose collect_data() raised.
RegistryAfterCollect_DropFailed(exts, name, outcome) ==
    [i \in 1..Len(exts) |->
        IF exts[i].name = name /\ outcome = "raise"
        THEN [exts[i] EXCEPT !.module = NoModule]
        ELSE exts[i]]

\* self.extensions after the loop body ran for one extension: collect_data
\* only reads it.
RegistryAfterCollect(exts, name, outcome) == exts

\* Variant of CollectFinished for a return inside the loop body.
CollectFinished_AfterFirst == idx > 1

\* The for loop of collect_data went through every entry of self.extensions
\* and "return data" is reached.
CollectFinished == idx > Len(extensions)

\* The body of the for loop of collect_data for the entry at idx.
CollectItem ==
    /\ pc = "collect_data"
    /\ idx <= Len(extensions)
    /\ LET extension == extensions[idx]
           name == extension.name
       IN IF ~IsActive(extension)
          THEN /\ idx' = idx + 1
               /\ UNCHANGED <<pc, data, collected, collectCalls, extensions>>
          ELSE \E has_attr \in BOOLEAN, outcome \in CollectOutcomes :
                 IF has_attr /\ ~Returns(outcome)
                 THEN \* the call never returns: run() stays inside it
                      /\ pc' = "hung"
                      /\ collected' = [collected EXCEPT ![name] = outcome]
                      /\ collectCalls' = Append(collectCalls, name)
                      /\ UNCHANGED <<idx, data, extensions>>
                 ELSE LET ended == IF has_attr THEN outcome ELSE "no_attr"
                      IN /\ data' = CollectOne(data, name, has_attr, outcome)
                         /\ collected' = [collected EXCEPT ![name] = ended]
                         /\ collectCalls' = IF has_attr
                                            THEN Append(collectCalls, name)
                                            ELSE collectCalls
                         /\ idx' = NextIndex(idx, ended)
                         /\ extensions' = RegistryAfterCollect(extensions, name, ended)
                         /\ pc' = pc
    /\ UNCHANGED <<config, ai_config, initialized, summary, output, exitCode,
                   envVars, initCalled, loadAttempts, backendCalls, requests,
                   promptSent>>

\* One iteration of the for loop of collect_data.
CollectData ==
    /\ CollectItem
    /\ UNCHANGED cliVars

----
\* process_data() and query_ai()

\* Variant of FormatPrompt that lists the sections in a fixed order of the
\* sources (as json.dumps(context, sort_keys=True) would).
FormatPrompt_Sorted(prompt, context) ==
    IF context = <<>>
    THEN [framed |-> FALSE, sections |-> <<>>, task |-> prompt]
    ELSE LET ks == SelectSeq(AllNames, LAMBDA n : n \in Keys(context))
         IN [framed |-> TRUE,
             sections |-> [i \in 1..Len(ks) |->
                             [source |-> ks[i], json |-> Lookup(context, ks[i]).value]],
             task |-> prompt]

\* _format_prompt(prompt, context): the bare prompt when the context is
\* empty, else one "=== source ===" section per entry in dict order, then
\* the task and "Response:".
FormatPrompt(prompt, context) ==
    IF context = <<>>
    THEN [framed |-> FALSE, sections |-> <<>>, task |-> prompt]
    ELSE [framed |-> TRUE,
          sections |-> [i \in 1..Len(context) |->
                          [source |-> context[i].name, json |-> context[i].value]],
          task |-> prompt]

SummaryText == "<completion>"

\* _query_local_llama: the returned text with what happened (event) and how
\* often the model was loaded (contacted).  path_exists is
\* Path(model_path).exists(); outcome is what Llama(...) and the completion
\* call do.
QueryLocalLlama(cfg, path_exists, outcome) ==
    IF cfg.local_model_path = "" \/ ~path_exists
    THEN [result |-> "Error: Local model path not configured or model file not found",
          event |-> "not_configured", contacted |-> 0]
    ELSE IF outcome = "raise"
    THEN [result |-> "Error querying local model: <e>",
          event |-> "raise", contacted |-> 1]
    ELSE [result |-> SummaryText, event |-> "text", contacted |-> 1]

\* Variant of QueryClaude without the api_key test: the request is sent anyway.
QueryClaude_NoKeyCheck(cfg, outcome) ==
    IF outcome = "raise" \/ cfg.api_key = ""
    THEN [result |-> "Error querying Claude API: <e>",
          event |-> "raise", contacted |-> 1]
    ELSE [result |-> SummaryText, event |-> "text", contacted |-> 1]

\* _query_claude: contacted counts the requests sent to the API.
QueryClaude(cfg, outcome) ==
    IF cfg.api_key = ""
    THEN [result |-> "Error: Claude API key not configured",
          event |-> "not_configured", contacted |-> 0]
    ELSE IF outcome = "raise"
    THEN [result |-> "Error querying Claude API: <e>",
          event |-> "raise", contacted |-> 1]
    ELSE [result |-> SummaryText, event |-> "text", contacted |-> 1]

\* _query_openai
QueryOpenai(cfg, outcome) ==
    IF cfg.api_key = ""
    THEN [result |-> "Error: OpenAI API key not configured",
          event |-> "not_configured", contacted |-> 0]
    ELSE IF outcome = "raise"
    THEN [result |-> "Error querying OpenAI API: <e>",
          event |-> "raise", contacted |-> 1]
    ELSE [result |-> SummaryText, event |-> "text", contacted |-> 1]

\* Variant of Dispatch that turns to the local model when a remote provider
\* has no api_key.
Dispatch_LocalWithoutKey(cfg, formatted) ==
    IF cfg.provider \in {"claude", "openai"} /\ cfg.api_key = "" THEN "local"
    ELSE IF cfg.provider \in {"local", "claude", "openai"} THEN cfg.provider
    ELSE "none"

\* The if / elif chain of query_ai: the backend implementation it calls.
Dispatch(cfg, formatted) ==
    IF cfg.provider = "local" THEN "local"
    ELSE IF cfg.provider = "claude" THEN "claude"
    ELSE IF cfg.provider = "openai" THEN "openai"
    ELSE "none"

\* One call of a backend implementation, as backendCalls records it.
BackendCall(backend, cfg, path_exists, outcome) ==
    LET r == IF backend = "local" THEN QueryLocalLlama(cfg, path_exists, outcome)
             ELSE IF backend = "claude" THEN QueryClaude(cfg, outcome)
             ELSE QueryOpenai(cfg, outcome)
    IN [backend |-> backend, event |-> r.event, result |-> r.result,
        contacted |-> r.contacted,
        model_file |-> IF backend # "local" \/ cfg.local_model_path = "" THEN "n/a"
                       ELSE IF path_exists THEN "found" ELSE "missing"]

\* Variant of QueryAi that asks the local model when a remote backend failed.
QueryAi_Fallback(cfg, prompt, context, path_exists, outcome) ==
    LET formatted == FormatPrompt(prompt, context)
        backend == Dispatch(cfg, formatted)
    IN IF backend = "none"
       THEN [formatted |-> formatted, calls |-> <<>>,
             result |-> "Error: Unable to query AI model"]
       ELSE LET c == BackendCall(backend, cfg, path_exists, outcome)
                l == BackendCall("local", cfg, path_exists, "text")
            IN IF c.event # "text" /\ backend # "local"
               THEN [formatted |-> formatted, calls |-> <<c, l>>, result |-> l.result]
               ELSE [formatted |-> formatted, calls |-> <<c>>, result |-> c.result]

\* query_ai(prompt, context): the prompt it formats, the backend calls it
\* makes and the string it returns.
QueryAi(cfg, prompt, context, path_exists, outcome) ==
    LET formatted == FormatPrompt(prompt, context)
        backend == Dispatch(cfg, formatted)
    IN IF backend = "none"
       THEN [formatted |-> formatted, calls |-> <<>>,
             result |-> "Error: Unable to query AI model"]
       ELSE LET c == BackendCall(backend, cfg, path_exists, outcome)
            IN [formatted |-> formatted, calls |-> <<c>>, result |-> c.result]

\* The requests a sequence of backend calls issued.
RECURSIVE Contacted(_)
Contacted(calls) ==
    IF calls = <<>> THEN 0 ELSE Head(calls).contacted + Contacted(Tail(calls))

\* Variant of NoData without the early return: the backend is always asked.
NoData_Never(d) == FALSE

\* "if not data: return ..." at the top of process_data.
NoData(d) == d = <<>>

\* The loop of collect_data is over and it returns data; the rest of run():
\* summary = process_data(data), with the query_ai call it makes, then the
\* prints; main() returns and the process exits with status 0.
ProcessData ==
    /\ pc = "collect_data"
    /\ CollectFinished
    /\ IF NoData(data)
       THEN /\ summary' = NoDataMsg
            /\ UNCHANGED <<backendCalls, requests, promptSent>>
       ELSE \E path_exists \in BOOLEAN, outcome \in BackendOutcomes :
              LET r == QueryAi(ai_config, TaskPrompt, data, path_exists, outcome)
              IN /\ summary' = r.result
                 /\ backendCalls' = backendCalls \o r.calls
                 /\ requests' = requests + Contacted(r.calls)
                 /\ promptSent' = r.formatted
    /\ output' = summary'
    /\ exitCode' = 0
    /\ pc' = "done"
    /\ UNCHANGED <<config, ai_config, extensions, initialized, idx, data,
                   envVars, cliVars, initCalled, loadAttempts, collected, collectCalls>>

----
Next ==
    \/ Run
    \/ LoadConfig
    \/ LoadAiProvider
    \/ LoadExtensions
    \/ InitializeDone
    \/ CollectData
    \/ ProcessData

\* The pipeline over every layout of connector files, with a default "ai"
\* block in the configuration file.
Spec == Init /\ [][Next]_vars

NextAnyAI ==
    \/ Run
    \/ LoadConfigAnyAI
    \/ LoadAiProvider
    \/ LoadExtensions
    \/ InitializeDone
    \/ CollectData
    \/ ProcessData

\* The pipeline over every "ai" block, with user-supplied connector files.
SpecBackend == InitUserFiles /\ [][NextAnyAI]_vars

NextAnyOrder ==
    \/ Run
    \/ LoadConfigAnyOrder
    \/ LoadAiProvider
    \/ LoadExtensions
    \/ InitializeDone
    \/ CollectData
    \/ ProcessData

\* The pipeline over every order of the connectors in the file, with
\* user-supplied connector files.
SpecOrder == InitUserFiles /\ [][NextAnyOrder]_vars

\* initialize() after load_ai_provider, about to run the loop body of
\* load_extensions on its first item; a user file exists for every name.
InitRegistry ==
    /\ pc = "load_extensions"
    /\ config = <<>>
    /\ ai_config = DefaultAIConfig
    /\ extensions = <<>>
    /\ initialized = FALSE
    /\ idx = 1
    /\ data = <<>>
    /\ summary = "None"
    /\ output = "None"
    /\ exitCode = -1
    /\ initCalled = {}
    /\ loadAttempts = <<>>
    /\ collected = [n \in ExtNames |-> "none"]
    /\ collectCalls = <<>>
    /\ backendCalls = <<>>
    /\ requests = 0
    /\ promptSent = NoPrompt
    /\ cli = "none"
    /\ callNo = 0
    /\ mods = [n \in ExtNames |-> ModuleGlobals]
    /\ remote = NoRemote
    /\ returned = NoReturn
    /\ builtinFiles = {}
    /\ userFiles = ExtNames

NextRegistry ==
    \/ RegisterEntry
    \/ InitializeDone

\* The writes of load_extensions to self.extensions, over any items.
SpecRegistry == InitRegistry /\ [][NextRegistry]_vars

TypeOK ==
    /\ pc \in {"idle", "load_config", "load_ai_provider", "load_extensions",
               "collect_data", "hung", "done", "exit",
               "module_main", "module_collect", "module_done",
               "show_config", "setup_wizard", "install_extension"}
    /\ Len(extensions) <= NumExt
    /\ Len(data) <= NumExt
    /\ exitCode \in {-1, 0, 1}

----
\* Vocabulary of the properties

\* n is configured with the given enabled flag.
ConfiguredAs(n, flag) ==
    \E i \in 1..Len(config) : config[i].name = n /\ config[i].enabled = flag

\* n finished loading: it is in self.extensions with a module handle.
Loaded(n) ==
    \E i \in 1..Len(extensions) :
        extensions[i].name = n /\ extensions[i].module # NoModule

\* collect_data has returned its result for this round.
CollectReturned == pc = "done"

\* load_extensions has run to its end.
LoadFinished == pc \in {"collect_data", "hung", "done"}

\* The value stored in data under n.
ValueOf(n) == Lookup(data, n).value

\* Names of the connectors whose collect_data() was called and ended as given.
Ended(outcomes) == {n \in ExtNames : collected[n] \in outcomes}

----
\* C1 (as stated): when a connector's collect() fails, by raising or by
\* returning an error, the result holds exactly the connectors whose
\* collect() returned data: the failed ones are left out.
C1_FailedConnectorsLeftOut ==
    (CollectReturned /\ Ended({"raise", "error"}) # {})
        => Keys(data) = Ended({"data"})

\* C1 (amended): a connector whose collect() raises is left out and takes
\* nothing away: every connector whose collect() returned a non-empty value
\* has that value under its name, whatever the others did, and a run with
\* such a value goes on to build the prompt and call the backend; a returned
\* error marker is such a value and is kept.
C1_CollectionIsolation ==
    /\ \A n \in Ended({"data", "error"}) :
          n \in Keys(data) /\ ValueOf(n) = collected[n]
    /\ \A n \in Ended({"raise"}) : n \notin Keys(data)
    /\ (pc = "done" /\ Ended({"data"}) # {})
          => /\ promptSent.framed
             /\ {promptSent.sections[i].source :
                    i \in 1..Len(promptSent.sections)} = Keys(data)

\* C1 witness: one disabled, one raising and one healthy connector; the
\* result has the healthy one as its only key and the prompt was built.
C1_Witness ==
    /\ pc = "done"
    /\ \E d, f, h \in ExtNames :
          /\ ConfiguredAs(d, FALSE)
          /\ collected[f] = "raise"
          /\ collected[h] = "data"
          /\ Keys(data) = {h}
    /\ promptSent.framed

\* C2 (as stated): once a connector succeeded, the keys are exactly the
\* loaded connectors whose collect() succeeded (returned a value that is not
\* an error).
C2_KeysAreSucceeded ==
    (CollectReturned /\ Ended({"data", "empty"}) # {})
        => Keys(data) = {n \in ExtNames : Loaded(n) /\ collected[n] \in {"data", "empty"}}

\* C2 (amended): once a connector's collect() returned, the keys are exactly
\* the loaded connectors whose collect() returned a non-empty value in this
\* round, an error marker included; an empty value is dropped.
C2_KeysAreNonEmptyReturns ==
    (CollectReturned /\ Ended({"data", "empty", "error"}) # {})
        => Keys(data) = {n \in ExtNames : Loaded(n) /\ collected[n] \in {"data", "error"}}

\* C2 witness: a round in which one connector returned data, one an empty
\* value and one an error marker.
C2_Witness ==
    /\ CollectReturned
    /\ Ended({"data"}) # {}
    /\ Ended({"empty"}) # {}
    /\ Ended({"error"}) # {}

\* C3: a connector configured with enabled = false is never handed to the
\* loader, its initialize is never called, it is never in self.extensions
\* and never a key of the collected data, whatever files exist for it.
C3_DisabledNeverLoaded ==
    \A n \in ExtNames :
        ConfiguredAs(n, FALSE)
            => /\ n \notin initCalled
               /\ n \notin Keys(extensions)
               /\ n \notin Keys(data)
               /\ \A i \in 1..Len(loadAttempts) : loadAttempts[i].name # n
               /\ collected[n] = "none"

\* C3 witness: a finished run with a disabled connector for which a bundled
\* and a user-supplied file both exist, next to a connector that collected.
C3_Witness ==
    /\ pc = "done"
    /\ \E n \in ExtNames :
          ConfiguredAs(n, FALSE) /\ n \in builtinFiles /\ n \in userFiles
    /\ Keys(data) # {}

\* C4 (as stated): with an empty result the backend is still invoked
\* exactly once before the output is produced.
C4_BackendCalledOnEmpty ==
    (pc = "done" /\ data = <<>>) => Len(backendCalls) = 1

\* C4 (amended): with no connector enabled, or with every connector raising
\* or returning nothing, the result is empty; the run then prints "No data
\* collected from extensions." and ends with status 0 without formatting a
\* prompt or invoking any backend.
C4_EmptyResultSkipsBackend ==
    /\ (CollectReturned /\ Ended({"data", "error"}) = {}) => data = <<>>
    /\ (pc = "done" /\ data = <<>>)
          => /\ backendCalls = <<>>
             /\ requests = 0
             /\ promptSent = NoPrompt
             /\ output = NoDataMsg
             /\ exitCode = 0

\* C4 witness: a finished run in which every connector was loaded and every
\* collect() raised.
C4_Witness ==
    /\ pc = "done"
    /\ data = <<>>
    /\ \A n \in ExtNames : ConfiguredAs(n, TRUE) /\ collected[n] = "raise"

\* The loop of load_extensions is past entry i of the configuration.
Visited(i) == LoadFinished \/ (pc = "load_extensions" /\ i < idx)

\* C5: a connector whose import or initialize fails stops nothing: every
\* enabled connector with a file is handed to the loader and recorded in
\* self.extensions once the loop passed it, whatever happened to the ones
\* before it, and no failure of a load ends the process.
C5_ActivationIsolation ==
    /\ \A i \in 1..Len(config) :
          (Visited(i) /\ config[i].enabled
             /\ config[i].name \in builtinFiles \cup userFiles)
            => /\ \E k \in 1..Len(loadAttempts) :
                     loadAttempts[k].name = config[i].name
               /\ config[i].name \in Keys(extensions)
    /\ pc = "exit" => loadAttempts = <<>>

\* C5 witness: the first connector's initialize raised and a later connector
\* was loaded and initialized.
C5_Witness ==
    /\ LoadFinished
    /\ \E i, j \in 1..Len(config) :
          /\ i < j
          /\ config[i].name \in initCalled
          /\ config[i].name \in Keys(extensions)
          /\ ~Loaded(config[i].name)
          /\ Loaded(config[j].name)
          /\ config[j].name \in initCalled

\* C6: a name with a bundled file is loaded from the bundled file only; the
\* user's file is used only for a name without a bundled file; no name is
\* handed to the loader twice.
C6_BuiltinBeforeUser ==
    /\ \A k \in 1..Len(loadAttempts) :
          LET a == loadAttempts[k]
          IN /\ a.name \in builtinFiles => a.path = "builtin"
             /\ a.path = "builtin" => a.name \in builtinFiles
             /\ a.path = "user" => a.name \in userFiles \ builtinFiles
             /\ \A l \in 1..Len(loadAttempts) :
                   loadAttempts[l].name = a.name => l = k
    /\ \A i \in 1..Len(extensions) :
          extensions[i].name \in builtinFiles
            => extensions[i].module \in {NoModule, "builtin"}

\* C6 witness: both files exist for a connector, and it was loaded from the
\* bundled one.
C6_Witness ==
    /\ LoadFinished
    /\ \E i \in 1..Len(extensions) :
          /\ extensions[i].name \in builtinFiles \cap userFiles
          /\ extensions[i].module = "builtin"
    /\ \E i \in 1..Len(extensions) : extensions[i].module = "user"

\* C7 (as stated): after a round a name is a key if and only if the
\* connector was enabled and finished loading.
C7_KeyIffLoaded ==
    CollectReturned
        => \A n \in ExtNames :
              n \in Keys(data) <=> (ConfiguredAs(n, TRUE) /\ Loaded(n))

\* C7 (amended): a name is a key only if the connector was enabled and
\* finished loading, and then with a non-empty value; disabled, not found and
\* never attempted connectors are absent.
C7_KeyOnlyIfLoaded ==
    \A n \in ExtNames :
        /\ n \in Keys(data)
              => /\ ConfiguredAs(n, TRUE)
                 /\ Loaded(n)
                 /\ ValueOf(n) \in {"data", "error"}
        /\ (~ConfiguredAs(n, TRUE) \/ n \notin builtinFiles \cup userFiles)
              => n \notin Keys(data)

\* C7 witness: after a round, one connector is a key, one enabled connector
\* has no file, and one enabled connector's load failed.
C7_Witness ==
    /\ CollectReturned
    /\ \E n, m, k \in ExtNames :
          /\ n \in Keys(data)
          /\ ConfiguredAs(m, TRUE) /\ m \notin builtinFiles \cup userFiles
          /\ k \in Keys(extensions) /\ ~Loaded(k)
          /\ m \notin Keys(data) /\ k \notin Keys(data)

\* C8: the backend implementation query_ai calls is the one named by
\* ai_config.provider, whatever the api_key, the model path, the collected
\* context and the prompt are.
C8_BackendByProvider ==
    \A k \in 1..Len(backendCalls) :
        /\ ai_config.provider = "local" => backendCalls[k].backend = "local"
        /\ ai_config.provider = "claude" => backendCalls[k].backend = "claude"
        /\ ai_config.provider = "openai" => backendCalls[k].backend = "openai"

\* C8 witness: a remote provider without api_key was asked to summarise a
\* result with two entries.
C8_Witness ==
    /\ pc = "done"
    /\ Len(backendCalls) = 1
    /\ ai_config.provider = "openai"
    /\ ai_config.api_key = ""
    /\ Len(data) = 2

\* The text a failed call of a backend returns.
ErrorText(backend, event) ==
    IF event = "not_configured"
    THEN IF backend = "local"
         THEN "Error: Local model path not configured or model file not found"
         ELSE IF backend = "claude" THEN "Error: Claude API key not configured"
         ELSE "Error: OpenAI API key not configured"
    ELSE IF backend = "local" THEN "Error querying local model: <e>"
         ELSE IF backend = "claude" THEN "Error querying Claude API: <e>"
         ELSE "Error querying OpenAI API: <e>"

\* C9: when the call of the selected backend fails, it is the only backend
\* call of the run and its error text is what the run prints.
C9_NoFallback ==
    (pc = "done" /\ backendCalls # <<>> /\ backendCalls[1].event # "text")
        => /\ Len(backendCalls) = 1
           /\ backendCalls[1].backend = ai_config.provider
           /\ output = ErrorText(backendCalls[1].backend, backendCalls[1].event)
           /\ output # SummaryText
           /\ requests <= 1

\* C9 witness: the request of a remote backend was sent and failed.
C9_Witness ==
    /\ pc = "done"
    /\ Len(backendCalls) = 1
    /\ backendCalls[1].backend = "claude"
    /\ backendCalls[1].event = "raise"
    /\ requests = 1

----
\* Claims C11-C20

\* Some load, some collect_data() or the backend call failed in this run.
SomethingFailed ==
    \/ \E k \in 1..Len(loadAttempts) : loadAttempts[k].outcome # "ok"
    \/ Ended({"raise", "error"}) # {}
    \/ \E k \in 1..Len(backendCalls) : backendCalls[k].event # "text"

ActiveNames ==
    {extensions[i].name : i \in {j \in 1..Len(extensions) :
                                   extensions[j].enabled
                                   /\ extensions[j].module # NoModule}}

\* C12: the backend is called at most once, and when it has been called (or
\* the prompt has been built) the loop of collect_data is over and the
\* collect_data() of every active connector has ended, by return or by
\* exception; while a call is still running there is no backend call.
C12_BarrierBeforeBackend ==
    /\ Len(backendCalls) <= 1
    /\ (backendCalls # <<>> \/ promptSent # NoPrompt)
          => /\ pc = "done"
             /\ idx > Len(extensions)
             /\ \A n \in ActiveNames : collected[n] \notin {"none", "hang"}
    /\ pc = "hung" => backendCalls = <<>> /\ promptSent = NoPrompt

\* C12 witness: the backend was called after two active connectors were
\* asked, one of which raised.
C12_Witness ==
    /\ pc = "done"
    /\ Len(backendCalls) = 1
    /\ \E n, m \in ActiveNames :
          /\ collected[n] = "raise"
          /\ collected[m] = "data"

\* C13 (as stated): when the collect_data() of one active connector never
\* returns, every other active connector has been asked and has ended, or
\* can still be asked.
C13_OthersStillCollected ==
    \A n \in ExtNames :
        collected[n] = "hang"
            => \A m \in ActiveNames \ {n} :
                  collected[m] \notin {"none", "hang"} \/ ENABLED CollectData

\* C13 (what the code does): collection is sequential, in the order of
\* self.extensions. When the collect_data() of a connector never returns,
\* run() stays inside that call: the active connectors before it have been
\* asked and what they returned is still in data, the connectors after
\* it are never asked, nothing more can happen, and there is neither a
\* backend call nor an output. A call that returns, however late, stops
\* nobody: a call is recorded as not returning only in such a stuck state.
C13_SequentialCollection ==
    /\ \A n \in ExtNames : collected[n] = "hang" <=> (pc = "hung" /\ extensions[idx].name = n)
    /\ pc = "hung"
          => /\ idx \in 1..Len(extensions)
             /\ \A i \in 1..Len(extensions) :
                   LET m == extensions[i].name
                   IN /\ (i < idx /\ m \in ActiveNames) => collected[m] \notin {"none", "hang"}
                      /\ (i < idx /\ collected[m] \in {"data", "error"}) => m \in Keys(data)
                      /\ i > idx => collected[m] = "none" /\ m \notin Keys(data)
             /\ ~ENABLED CollectData
             /\ backendCalls = <<>>
             /\ output = "None"
             /\ exitCode = -1

\* C13 witness: a connector's collect_data() never returns, a connector
\* before it has its entry in data, and an active connector after it was
\* not asked.
C13_Witness ==
    /\ pc = "hung"
    /\ \E i, j \in 1..Len(extensions) :
          /\ i < idx /\ j > idx
          /\ extensions[i].name \in Keys(data)
          /\ extensions[j].name \in ActiveNames
          /\ collected[extensions[j].name] = "none"

\* What Extension.from_dict must give for the k-th item: its name, its
\* "enabled" (True when the block has none) and its "config" ({} when the
\* block has none).
EnabledOf(k) == IF "enabled" \in config[k].keys THEN config[k].enabled ELSE TRUE

ConfigOf(k) == IF "config" \in config[k].keys THEN config[k].config ELSE EmptyConfig

\* The k-th item was written to self.extensions: it is enabled, it has a
\* file, and the loop has passed it.
Registered(k) ==
    /\ Visited(k)
    /\ EnabledOf(k)
    /\ config[k].name \in builtinFiles \cup userFiles

\* C14: self.extensions holds one entry per name; the entry read under a
\* name has the name, the enabled flag and the config mapping of the last
\* item of that name that was written, and every name that was written has
\* an entry.
C14_RegistryReadAfterWrite ==
    /\ \A i, j \in 1..Len(extensions) :
          extensions[i].name = extensions[j].name => i = j
    /\ \A k \in 1..Len(config) :
          Registered(k)
            => /\ config[k].name \in Keys(extensions)
               /\ (\A l \in (k+1)..Len(config) :
                      ~(Registered(l) /\ config[l].name = config[k].name))
                    => LET e == Lookup(extensions, config[k].name)
                       IN /\ e.name = config[k].name
                          /\ e.enabled = EnabledOf(k)
                          /\ e.config = ConfigOf(k)
    /\ \A i \in 1..Len(extensions) :
          \E k \in 1..Len(config) :
             Registered(k) /\ config[k].name = extensions[i].name

\* C14 witness: a name was written twice with different config mappings, and
\* the registry has one entry, holding the second.
C14_Witness ==
    /\ Len(config) = 2
    /\ Registered(1) /\ Registered(2)
    /\ config[1].name = config[2].name
    /\ ConfigOf(1) # ConfigOf(2)
    /\ "config" \in config[1].keys
    /\ Len(extensions) = 1
    /\ extensions[1].config = ConfigOf(2)

\* How connector n is represented in the result of collect_data.
Representation(n) == IF n \in Keys(data) THEN ValueOf(n) ELSE "absent"

\* C15 (as stated): after a round, a connector whose collect_data()
\* returned an empty value and a connector whose collect_data() raised are
\* represented differently in the result.
C15_EmptyDiffersFromFailed ==
    CollectReturned
        => \A n, m \in ExtNames :
              (collected[n] = "empty" /\ collected[m] = "raise")
                 => Representation(n) # Representation(m)

\* C15 (amended): an empty return and a raised exception are represented
\* alike: in both cases the connector has no key in the result. Only a
\* failure that the connector reports by returning an error marker is
\* represented, by that marker.
C15_EmptyAndRaisedAlike ==
    \A n \in ExtNames :
        /\ collected[n] \in {"empty", "raise"} => Representation(n) = "absent"
        /\ collected[n] = "error" => Representation(n) = "error"

\* C15 witness: after a round, one connector returned an empty value,
\* another raised, and neither has a key, while a third has its value.
C15_Witness ==
    /\ CollectReturned
    /\ \E n, m, k \in ExtNames :
          /\ collected[n] = "empty" /\ collected[m] = "raise"
          /\ Representation(n) = "absent" /\ Representation(m) = "absent"
          /\ Representation(k) = "data"

\* Position of name n in self.extensions.
PositionOf(n) == CHOOSE i \in 1..Len(extensions) : extensions[i].name = n

\* C16: in one run no connector is handed to the loader twice, no
\* connector's collect_data() is called twice, whatever the first call did,
\* and the backend is called at most once; connectors are asked in the order
\* of self.extensions, only after initialize() has finished; the prompt is
\* built and the backend called only after the loop of collect_data is over,
\* and the output is printed only at the end.
C16_SinglePassNoRetry ==
    /\ \A k, l \in 1..Len(loadAttempts) :
          loadAttempts[k].name = loadAttempts[l].name => k = l
    /\ \A k, l \in 1..Len(collectCalls) :
          /\ collectCalls[k] = collectCalls[l] => k = l
          /\ k < l => PositionOf(collectCalls[k]) < PositionOf(collectCalls[l])
    /\ Len(backendCalls) <= 1
    /\ collectCalls # <<>> => initialized /\ pc \in {"collect_data", "hung", "done"}
    /\ promptSent # NoPrompt => pc = "done" /\ idx > Len(extensions)
    /\ backendCalls # <<>> => promptSent # NoPrompt
    /\ output # "None" => pc = "done" /\ output = summary

\* C16 witness: a run ended after a failed load, a collect_data() that
\* raised, a later connector that was asked, and a backend call that failed:
\* each was attempted once.
C16_Witness ==
    /\ pc = "done"
    /\ \E k \in 1..Len(loadAttempts) : loadAttempts[k].outcome # "ok"
    /\ \E k, l \in 1..Len(collectCalls) :
          k < l /\ collected[collectCalls[k]] = "raise"
    /\ Len(backendCalls) = 1
    /\ backendCalls[1].event = "raise"

\* The names whose load failed: _load_extension_module was called for them
\* and the import or the initialize call raised.
LoadFailed == {loadAttempts[k].name : k \in {l \in 1..Len(loadAttempts) :
                                               loadAttempts[l].outcome # "ok"}}

\* C17: a failure of the import or of initialize ends neither
\* load_extensions nor the process, and the connector is left out for the
\* rest of the run: its entry of self.extensions has no module handle, so
\* it is not among the connectors collect_data asks, its collect_data() is
\* never called and it never has a key in the result.
C17_FailedLoadStaysInactive ==
    /\ \A n \in LoadFailed :
          /\ n \in Keys(extensions)
          /\ Lookup(extensions, n).enabled
          /\ Lookup(extensions, n).module = NoModule
          /\ n \notin ActiveNames
          /\ collected[n] = "none"
          /\ \A k \in 1..Len(collectCalls) : collectCalls[k] # n
          /\ n \notin Keys(data)
    /\ LoadFailed # {} => pc # "exit" /\ exitCode # 1

\* C17 witness: after a round, a connector whose initialize raised and one
\* whose import raised are in self.extensions without module handle and
\* were not asked, while a loaded connector was.
C17_Witness ==
    /\ CollectReturned
    /\ \E k, l \in 1..Len(loadAttempts) :
          /\ loadAttempts[k].outcome = "init_error"
          /\ loadAttempts[l].outcome = "import_error"
          /\ loadAttempts[k].name \in Keys(extensions)
          /\ loadAttempts[l].name \in Keys(extensions)
          /\ collected[loadAttempts[k].name] = "none"
    /\ collectCalls # <<>>

\* The i-th configured connector is enabled, has neither a bundled nor a
\* user-supplied file, and the loop of load_extensions has passed it.
NotFound(i) ==
    /\ Visited(i)
    /\ config[i].enabled
    /\ config[i].name \notin builtinFiles \cup userFiles

\* C18: an enabled connector without any file is not written to
\* self.extensions, is never handed to the loader (not once, and not again
\* later), has no initialize and no collect_data() call and no key in the
\* result, and does not end the run; every enabled connector with a file that
\* the loop has passed, before or after it, was handed to the loader and
\* written to self.extensions.
C18_NotFoundIsAbsent ==
    \A i \in 1..Len(config) :
        NotFound(i)
          => /\ config[i].name \notin Keys(extensions)
             /\ \A k \in 1..Len(loadAttempts) : loadAttempts[k].name # config[i].name
             /\ config[i].name \notin initCalled
             /\ collected[config[i].name] = "none"
             /\ config[i].name \notin Keys(data)
             /\ pc # "exit"
             /\ \A j \in 1..Len(config) :
                   (/\ j # i
                    /\ Visited(j)
                    /\ config[j].enabled
                    /\ config[j].name \in builtinFiles \cup userFiles)
                     => /\ config[j].name \in Keys(extensions)
                        /\ \E k \in 1..Len(loadAttempts) :
                              loadAttempts[k].name = config[j].name

\* C18 witness: after a round, the first configured connector is enabled
\* and has no file, and a later one was loaded and asked and has its entry.
C18_Witness ==
    /\ CollectReturned
    /\ NotFound(1)
    /\ \E j \in 2..Len(config) :
          /\ Loaded(config[j].name)
          /\ config[j].name \in Keys(data)

\* The mappings with the key-value pairs of d, inserted in any order.
Reorderings(d) ==
    {d2 \in [1..Len(d) -> {d[i] : i \in 1..Len(d)}] :
        \A i \in 1..Len(d) : \E j \in 1..Len(d) : d2[j] = d[i]}

\* Position of name n in the configuration.
ConfigPositionOf(n) == CHOOSE i \in 1..Len(config) : config[i].name = n

\* The set of the sections of a prompt.
SectionsOf(p) == {p.sections[i] : i \in 1..Len(p.sections)}

\* C19 (as stated): the prompt passed to the backend is the prompt
\* _format_prompt builds from any result with the same key-value pairs
\* inserted in another order.
C19_PromptOrderIndependent ==
    promptSent # NoPrompt
        => \A d2 \in Reorderings(data) :
              FormatPrompt(TaskPrompt, d2) = promptSent

\* C19 (amended): the prompt lists one section per key of the result, in
\* insertion order, which is the order of the connectors in the
\* configuration; a result with the same pairs in another order gives a
\* prompt with the same sections and the same task in that other order,
\* equal to the first only when the orders are equal.
C19_PromptFollowsInsertionOrder ==
    promptSent # NoPrompt
        => /\ Len(promptSent.sections) = Len(data)
           /\ \A i \in 1..Len(data) :
                 /\ promptSent.sections[i].source = data[i].name
                 /\ promptSent.sections[i].json = data[i].value
           /\ \A i, j \in 1..Len(data) :
                 i < j => ConfigPositionOf(data[i].name) < ConfigPositionOf(data[j].name)
           /\ \A d2 \in Reorderings(data) :
                 LET p2 == FormatPrompt(TaskPrompt, d2)
                 IN /\ SectionsOf(p2) = SectionsOf(promptSent)
                    /\ p2.task = promptSent.task
                    /\ p2.framed = promptSent.framed
                    /\ (p2 = promptSent) <=> (\A i \in 1..Len(data) : d2[i] = data[i])

\* C19 witness: a prompt was built from a result whose keys were inserted
\* in the order jira, github, and its sections are in that order.
C19_Witness ==
    /\ promptSent # NoPrompt
    /\ Len(data) >= 2
    /\ data[1].name = "jira" /\ data[2].name = "github"
    /\ promptSent.sections[1].source = "jira"
    /\ promptSent.sections[2].source = "github"

\* C20: once initialize() has finished, no step of the run (collect_data,
\* process_data, query_ai, the prints) changes self.extensions: no entry is
\* added, removed or replaced, and no entry's enabled flag, config or module
\* handle changes.
C20_RegistryFrozenAfterActivation ==
    [][initialized => extensions' = extensions]_vars

\* C20 witness: a run ended after initialize() with two entries in
\* self.extensions, one collect_data() that raised and a backend call.
C20_Witness ==
    /\ pc = "done"
    /\ initialized
    /\ Len(extensions) >= 2
    /\ Ended({"raise"}) # {}
    /\ Len(backendCalls) = 1

(***************************************************************************)
(* The bundled connector modules (src/extensions/<name>/run.py).  Each is  *)
(* also a program of its own: run directly it calls initialize(config) and *)
(* then collect_data() and prints what that returned.                      *)
(***************************************************************************)

\* What a remote endpoint does when a get_* function requests it: the
\* request fails (transport error, non-success status, "ok": false), or it
\* answers with no items, or it answers with items.
FetchOutcomes == {"fail", "empty", "items"}

\* Longest "repositories" / "projects" / "channels" list of a connector's
\* config.
MaxRepos == 2

\* Repository names of a GitHub config; the last has no "/".
RepoNames == {"o/a", "o/b", "nosep"}

\* owner, repo_name = repo.split("/") raises for a name without a "/".
WellFormedRepo(repo) == repo # "nosep"

ProjectNames == {"P1", "P2"}

\* Channel names of a Slack config.
ChannelNames == {"c1", "other"}

\* What conversations.list answers when it answers with items: a channel
\* with unread messages and a direct-message conversation.
SlackConversations ==
    << [id |-> "C1", name |-> "c1", is_im |-> FALSE, unread_count |-> 1],
       [id |-> "D1", name |-> "DM", is_im |-> TRUE, unread_count |-> 0] >>

ConfigLists(conn) ==
    LET S == CASE conn = "github" -> RepoNames
               [] conn = "jira" -> ProjectNames
               [] OTHER -> ChannelNames
    IN  UNION {[1..n -> S] : n \in 0..MaxRepos}

Endpoint(ep, of) == [ep |-> ep, of |-> of]

\* The remote endpoints a connector module can request.
Endpoints(conn) ==
    CASE conn = "github" ->
           {Endpoint(ep, repo) : ep \in {"pulls", "reviews", "issues"},
                                 repo \in {r \in RepoNames : WellFormedRepo(r)}}
           \cup {Endpoint("notifications", "-")}
      [] conn = "jira" ->
           {Endpoint(ep, "-") : ep \in {"assigned", "watching", "activity"}}
           \cup {Endpoint("sprint", p) : p \in ProjectNames}
      [] OTHER ->
           {Endpoint(ep, "-") : ep \in {"auth.test", "conversations.list"}}
           \cup {Endpoint("conversations.history", SlackConversations[i].id) :
                    i \in 1..Len(SlackConversations)}

\* A get_* function: the request and the decoding are inside try/except;
\* it returns the items of the answer, and [] when the request failed.
Fetched(fetch, ep, of) ==
    IF fetch[Endpoint(ep, of)] = "items" THEN << Endpoint(ep, of) >> ELSE << >>

get_pull_requests(fetch, repo) == Fetched(fetch, "pulls", repo)

get_pr_reviews(fetch, repo) == Fetched(fetch, "reviews", repo)

get_issues(fetch, repo) == Fetched(fetch, "issues", repo)

get_notifications(fetch) == Fetched(fetch, "notifications", "-")

\* The {"error": ...} dict a collect_data() returns instead of a result.
ErrorMarker(text) == [kind |-> "error", error |-> text]

\* Variant of ReposAfterFailure with the try around the whole loop: the
\* first repository that fails ends the loop.
ReposAfterFailure_None(repos) == << >>

\* The try/except of github's collect_data is inside the for loop: after a
\* repository whose processing raised, the loop goes on with the next one.
ReposAfterFailure(repos) == Tail(repos)

\* The for loop of github's collect_data over the configured repositories.
RECURSIVE github_repos(_, _, _)
github_repos(result, repos, fetch) ==
    IF repos = << >> THEN result
    ELSE LET repo == Head(repos) IN
         IF ~WellFormedRepo(repo)
         THEN github_repos(result, ReposAfterFailure(repos), fetch)
         ELSE LET prs == get_pull_requests(fetch, repo)
                  formatted == [i \in 1..Len(prs) |->
                                   [ep |-> "pulls", of |-> repo,
                                    reviews |-> get_pr_reviews(fetch, repo)]]
              IN  github_repos(
                      [result EXCEPT !.pull_requests = @ \o formatted,
                                     !.issues = @ \o get_issues(fetch, repo)],
                      Tail(repos), fetch)

github_collect_data(session, repositories, fetch) ==
    IF session = "None"
    THEN ErrorMarker("GitHub extension not properly initialized")
    ELSE LET result == [pull_requests |-> << >>, issues |-> << >>,
                        notifications |-> << >>]
             perRepo == github_repos(result, repositories, fetch)
         IN  [kind |-> "result",
              fragments |-> [perRepo EXCEPT
                                !.notifications = get_notifications(fetch)]]

get_assigned_issues(fetch) == Fetched(fetch, "assigned", "-")

get_watching_issues(fetch) == Fetched(fetch, "watching", "-")

get_sprint_issues(fetch, project) == Fetched(fetch, "sprint", project)

get_recent_activity(fetch) == Fetched(fetch, "activity", "-")

\* The for loop of jira's collect_data over the configured projects.
RECURSIVE jira_projects(_, _)
jira_projects(projects, fetch) ==
    IF projects = << >> THEN << >>
    ELSE get_sprint_issues(fetch, Head(projects))
             \o jira_projects(Tail(projects), fetch)

jira_collect_data(session, projects, fetch) ==
    IF session = "None"
    THEN ErrorMarker("Jira extension not properly initialized")
    ELSE [kind |-> "result",
          fragments |-> [assigned_issues |-> get_assigned_issues(fetch),
                         watching_issues |-> get_watching_issues(fetch),
                         sprint_issues |-> jira_projects(projects, fetch),
                         recent_activity |-> get_recent_activity(fetch)]]

\* The user id, or None when auth.test failed or answered without one.
get_user_id(fetch) ==
    IF fetch[Endpoint("auth.test", "-")] = "items" THEN "U1" ELSE "None"

get_conversations(fetch) ==
    IF fetch[Endpoint("conversations.list", "-")] = "items"
    THEN SlackConversations ELSE << >>

\* The messages of a channel's history: one message, which mentions the
\* user and holds an urgent keyword, when the endpoint answers with items.
get_channel_history(fetch, channel_id) ==
    Fetched(fetch, "conversations.history", channel_id)

InList(x, list) == \E i \in 1..Len(list) : list[i] = x

\* The for loop of slack's collect_data over the conversations.
RECURSIVE slack_conversations(_, _, _, _)
slack_conversations(result, conversations, channels, fetch) ==
    IF conversations = << >> THEN result
    ELSE LET conversation == Head(conversations) IN
         IF channels # << >> /\ ~InList(conversation.name, channels)
            /\ ~conversation.is_im
         THEN slack_conversations(result, Tail(conversations), channels, fetch)
         ELSE LET unread == IF conversation.unread_count > 0
                            THEN << [id |-> conversation.id] >> ELSE << >>
                  messages == get_channel_history(fetch, conversation.id)
                  direct == IF conversation.is_im THEN messages ELSE << >>
              IN  slack_conversations(
                      [result EXCEPT !.unread_channels = @ \o unread,
                                     !.mentions = @ \o messages,
                                     !.direct_messages = @ \o direct,
                                     !.important_messages = @ \o messages],
                      Tail(conversations), channels, fetch)

slack_collect_data(session, channels, fetch) ==
    IF session = "None"
    THEN ErrorMarker("Slack extension not properly initialized")
    ELSE IF get_user_id(fetch) = "None"
    THEN ErrorMarker("Could not get Slack user ID")
    ELSE LET result == [mentions |-> << >>, direct_messages |-> << >>,
                        unread_channels |-> << >>,
                        important_messages |-> << >>]
         IN  [kind |-> "result",
              fragments |-> slack_conversations(
                                result, get_conversations(fetch), channels,
                                fetch)]

\* collect_data() of the bundled module of the given name.
module_collect_data(conn, session, list, fetch) ==
    CASE conn = "github" -> github_collect_data(session, list, fetch)
      [] conn = "jira" -> jira_collect_data(session, list, fetch)
      [] OTHER -> slack_collect_data(session, list, fetch)

\* initialize(config) of a bundled module: _config is bound to the mapping
\* passed in; a session is made only when the credentials are there
\* (otherwise the function returns and _session stays what it was).
module_initialize(globals, ref, credentials) ==
    [globals EXCEPT !.config_ref = ref,
                    !.session = IF credentials THEN "session" ELSE @]

\* A module run on its own (its __main__ block): the config it is given
\* and what the remote endpoints will answer.
InitConnector ==
    /\ pc = "module_main"
    /\ \E conn \in BuiltinNames \cap ExtNames :
       \E credentials \in BOOLEAN :
       \E list \in ConfigLists(conn) :
       \E fetch \in [Endpoints(conn) -> FetchOutcomes] :
           remote = [conn |-> conn, credentials |-> credentials,
                     list |-> list, fetch |-> fetch]
    /\ returned = NoReturn
    /\ mods = [n \in ExtNames |-> ModuleGlobals]
    /\ cli = "none"
    /\ callNo = 0
    /\ config = << >>
    /\ ai_config = NoAIConfig
    /\ extensions = << >>
    /\ initialized = FALSE
    /\ idx = 0
    /\ data = << >>
    /\ summary = "None"
    /\ output = "None"
    /\ exitCode = -1
    /\ builtinFiles = {}
    /\ userFiles = {}
    /\ initCalled = {}
    /\ loadAttempts = << >>
    /\ collected = [n \in ExtNames |-> "none"]
    /\ collectCalls = << >>
    /\ backendCalls = << >>
    /\ requests = 0
    /\ promptSent = NoPrompt

pipelineVars ==
    <<config, ai_config, extensions, initialized, idx, data, summary, output,
      exitCode, builtinFiles, userFiles, initCalled, loadAttempts, collected,
      collectCalls, backendCalls, requests, promptSent>>

\* initialize(config) in the __main__ block.
ModuleInitialize ==
    /\ pc = "module_main"
    /\ mods' = [mods EXCEPT ![remote.conn] =
                   module_initialize(@, "main", remote.credentials)]
    /\ pc' = "module_collect"
    /\ UNCHANGED <<pipelineVars, cli, callNo, remote, returned>>

\* data = collect_data() in the __main__ block.
ModuleCollect ==
    /\ pc = "module_collect"
    /\ returned' = module_collect_data(remote.conn, mods[remote.conn].session,
                                       remote.list, remote.fetch)
    /\ mods' = [mods EXCEPT ![remote.conn].requested =
                   mods[remote.conn].session # "None"]
    /\ pc' = "module_done"
    /\ UNCHANGED <<pipelineVars, cli, callNo, remote>>

NextConnector == ModuleInitialize \/ ModuleCollect

SpecConnector == InitConnector /\ [][NextConnector]_vars

\* The remote endpoint answered the module's request with items.
Answered(ep, of) == remote.fetch[Endpoint(ep, of)] = "items"

Configured(x) == InList(x, remote.list)

Has(items, of) == \E i \in 1..Len(items) : items[i].of = of

\* A module run on its own with a session has returned from collect_data().
CollectedWithSession ==
    /\ pc = "module_done"
    /\ mods[remote.conn].session # "None"

\* Every fragment of github's result holds the items of exactly the
\* requests that were answered with items: a repository's pull requests,
\* their reviews, its issues, and the notifications, each on its own.
GithubAsFetched(f) ==
    /\ \A repo \in RepoNames :
          /\ Has(f.pull_requests, repo) <=>
                (Configured(repo) /\ WellFormedRepo(repo)
                   /\ Answered("pulls", repo))
          /\ Has(f.issues, repo) <=>
                (Configured(repo) /\ WellFormedRepo(repo)
                   /\ Answered("issues", repo))
    /\ \A i \in 1..Len(f.pull_requests) :
          (f.pull_requests[i].reviews # << >>) <=>
              Answered("reviews", f.pull_requests[i].of)
    /\ (f.notifications # << >>) <=> Answered("notifications", "-")

JiraAsFetched(f) ==
    /\ (f.assigned_issues # << >>) <=> Answered("assigned", "-")
    /\ (f.watching_issues # << >>) <=> Answered("watching", "-")
    /\ (f.recent_activity # << >>) <=> Answered("activity", "-")
    /\ \A project \in ProjectNames :
          Has(f.sprint_issues, project) <=>
              (Configured(project) /\ Answered("sprint", project))

\* The conversation is one the loop of slack's collect_data works on.
Processed(c) ==
    /\ Answered("conversations.list", "-")
    /\ (remote.list = << >> \/ Configured(c.name) \/ c.is_im)

SlackAsFetched(f) ==
    \A k \in 1..Len(SlackConversations) :
       LET c == SlackConversations[k]
           got == Processed(c) /\ Answered("conversations.history", c.id)
       IN  /\ Has(f.mentions, c.id) <=> got
           /\ Has(f.important_messages, c.id) <=> got
           /\ Has(f.direct_messages, c.id) <=> (got /\ c.is_im)
           /\ (\E j \in 1..Len(f.unread_channels) :
                  f.unread_channels[j].id = c.id)
                 <=> (Processed(c) /\ c.unread_count > 0)

AsFetched(f) ==
    CASE remote.conn = "github" -> GithubAsFetched(f)
      [] remote.conn = "jira" -> JiraAsFetched(f)
      [] OTHER -> SlackAsFetched(f)

\* C21 (as stated): whatever request of a bundled connector's
\* collect_data() fails, the call returns a result with every fragment:
\* the fragment of the failed request is empty and every other fragment,
\* repository and project holds what was fetched.
C21_PartialDataWhateverFails ==
    CollectedWithSession =>
        /\ returned.kind = "result"
        /\ AsFetched(returned.fragments)

\* C21 (what the code does): collect_data() of a bundled connector that
\* has a session never raises on a failed request, and it returns a result
\* in which the fragment of a failed request is empty and every other
\* fragment, repository and project holds what was fetched -- except that
\* slack's collect_data() returns only the error marker "Could not get
\* Slack user ID", and requests nothing else, when its first request
\* (auth.test) fails or answers without a user id.
C21_PartialDataUnlessNoUserId ==
    CollectedWithSession =>
        IF remote.conn = "slack" /\ ~Answered("auth.test", "-")
        THEN returned = ErrorMarker("Could not get Slack user ID")
        ELSE /\ returned.kind = "result"
             /\ AsFetched(returned.fragments)

\* C21 witness: github's collect_data() returned after the pull-request
\* request of the first of two repositories failed: that repository has no
\* pull request in the result, the other one has, and the first one's
\* issues are there.
C21_Witness ==
    /\ CollectedWithSession
    /\ remote.conn = "github"
    /\ remote.list = <<"o/a", "o/b">>
    /\ remote.fetch[Endpoint("pulls", "o/a")] = "fail"
    /\ Answered("pulls", "o/b")
    /\ Answered("issues", "o/a")
    /\ returned.kind = "result"
    /\ ~Has(returned.fragments.pull_requests, "o/a")
    /\ Has(returned.fragments.pull_requests, "o/b")
    /\ Has(returned.fragments.issues, "o/a")

(***************************************************************************)
(* main(): the four command-line actions, with the bundled connectors'     *)
(* code in the files that load_extensions finds.                           *)
(***************************************************************************)

\* run (no option), --config, --setup, --install-extension NAME.
CliActions == {"run", "config", "setup", "install"}

\* The NAME of --install-extension: a configured name or a new one.
InstallNames == ExtNames \cup {"newext"}

\* Variant of InitializesFirst in which only run() calls initialize().
InitializesFirst_RunOnly(action) == action = "run"

\* Each branch of main() starts with app.initialize(): directly (--config),
\* as the first statement of setup_wizard and of install_extension, and as
\* the first statement of run().
InitializesFirst(action) == action \in CliActions

\* Where main() goes on once app.initialize() has returned.
Continuation(action) ==
    CASE action = "run" -> "collect_data"
      [] action = "config" -> "show_config"
      [] action = "setup" -> "setup_wizard"
      [] OTHER -> "install_extension"

\* A fresh DevAssist; the user's extension directory holds the bundled
\* connectors' files, and nothing is at the built-in path
\* extensions/<name>.py (the package keeps them at extensions/<name>/run.py).
InitCli ==
    /\ Construct
    /\ builtinFiles = {}
    /\ userFiles = BuiltinNames \cap ExtNames

\* main(): parse the arguments and enter the branch of the action.
Main ==
    /\ pc = "idle"
    /\ cli = "none"
    /\ \E action \in CliActions :
          /\ cli' = action
          /\ pc' = IF InitializesFirst(action)
                      /\ ~AlreadyInitialized(initialized)
                   THEN "load_config" ELSE Continuation(action)
    /\ UNCHANGED <<config, ai_config, extensions, initialized, idx, data, summary,
                   output, exitCode, envVars, callNo, mods, remote, returned,
                   initCalled, loadAttempts, collected, collectCalls,
                   backendCalls, requests, promptSent>>

\* load_config() of a file with a default "ai" block whose connector blocks
\* hold credentials or not.
LoadConfigCli == LoadConfigWith(DefaultAIConfigs, {ExtOrder}, ConfigValues)

\* Variant of HasCredentials without the "if not token: return" of a
\* bundled module's initialize.
HasCredentials_Always(cfg) == TRUE

\* Whether a "config" mapping holds what a bundled module's initialize
\* asks for (github, slack: token; jira: url, username and api_token):
\* "cfg_a" is the mapping of create_default_config, whose values are
\* empty, "cfg_b" one with the values filled in, and {} has no key.
HasCredentials(cfg) == cfg = "cfg_b"

\* What extension.config is: the mapping of the configuration's block when
\* the block has a "config" key, else a {} of from_dict's own.
ConfigRef(d) == IF "config" \in d.keys THEN "entry" ELSE "fresh"

\* Variant of GlobalsOf in which every connector's code runs in one module
\* object, that of the first name.
GlobalsOf_Shared(name) == ExtOrder[1]

\* _load_extension_module makes a module object of its own for each
\* connector (module_from_spec): the globals a connector's functions read
\* and write are those of the module of its name.
GlobalsOf(name) == name

\* One iteration of the for loop of load_extensions on a bundled
\* connector's file: the import can fail; initialize(config) of a bundled
\* module does not raise and sets the module's _config and _session.
LoadBuiltin ==
    /\ pc = "load_extensions"
    /\ idx <= Len(config)
    /\ LoadItem(config[idx])
    /\ IF loadAttempts' = loadAttempts
       THEN mods' = mods
       ELSE LET attempt == loadAttempts'[Len(loadAttempts')]
                d == config[idx]
            IN  /\ attempt.outcome # "init_error"
                /\ mods' = IF attempt.outcome = "ok"
                           THEN [mods EXCEPT ![GlobalsOf(d.name)] =
                                    module_initialize(@, ConfigRef(d),
                                        HasCredentials(
                                            Extension_from_dict(d).config))]
                           ELSE mods
    /\ UNCHANGED <<config, cli, callNo, remote, returned>>

\* The loop of load_extensions is over: initialize() sets initialized and
\* returns to the branch of main() that called it.
InitializeReturns ==
    /\ pc = "load_extensions"
    /\ idx > Len(config)
    /\ initialized' = TRUE
    /\ pc' = Continuation(cli)
    /\ idx' = 1
    /\ data' = <<>>
    /\ UNCHANGED <<config, ai_config, extensions, summary, output, exitCode,
                   envVars, cliVars, initCalled, loadAttempts, collected,
                   collectCalls, backendCalls, requests, promptSent>>

\* What the pipeline sees of a bundled module's collect_data(): an
\* {"error": ...} dict, or a result dict (never empty: it has its keys).
OutcomeOf(ret) == IF ret.kind = "error" THEN "error" ELSE "data"

\* The answers of the remote endpoints in a pipeline run: all fail, all
\* answer without items, or all answer with items.
PipelineFetches(conn) ==
    {[e \in Endpoints(conn) |-> o] : o \in FetchOutcomes}

\* One iteration of the for loop of collect_data on a bundled connector:
\* the module has collect_data; it returns what module_collect_data gives
\* for the module's session, or, once a request is made (none has a
\* timeout), never returns.
CollectBuiltin ==
    /\ CollectItem
    /\ LET extension == extensions[idx]
           name == extension.name
           session == mods[GlobalsOf(name)].session
       IN  IF ~IsActive(extension)
           THEN mods' = mods
           ELSE /\ \E fetch \in PipelineFetches(name) :
                      collected'[name] \in
                          {OutcomeOf(module_collect_data(name, session, << >>,
                                                         fetch))}
                          \cup (IF session # "None" THEN {"hang"} ELSE {})
                /\ mods' = [mods EXCEPT ![GlobalsOf(name)].requested =
                               @ \/ session # "None"]
    /\ UNCHANGED <<cli, callNo, remote, returned>>

\* --config: print(json.dumps(app.config, indent=2)).
ShowConfig ==
    /\ pc = "show_config"
    /\ output' = "config"
    /\ exitCode' = 0
    /\ pc' = "done"
    /\ UNCHANGED <<config, ai_config, extensions, initialized, idx, data,
                   summary, envVars, cliVars, initCalled, loadAttempts,
                   collected, collectCalls, backendCalls, requests, promptSent>>

\* What the user types in the setup wizard for one connector: the answer to
\* "Enable <name>?" and whether values are typed for the keys of its config.
WizardAnswers == [enable : {"", "y", "n"}, values : BOOLEAN]

\* The block of a connector after the wizard's loop body: "enabled" is
\* replaced when an answer was typed; the keys of "config" are asked for
\* only when the block is then enabled, and a typed value is written into
\* the mapping itself.
WizardBlock(d, answer) ==
    LET enabled == IF answer.enable # "" THEN answer.enable = "y" ELSE d.enabled
    IN  [d EXCEPT !.enabled = enabled,
                  !.config = IF enabled /\ answer.values /\ @ # EmptyConfig
                             THEN "cfg_b" ELSE @]

\* extension.config of a registered connector is the mapping of the
\* configuration's block (not a copy): it holds what the block holds.
AliasedEntry(extension, cfg) ==
    IF extension.name \in Keys(cfg)
    THEN [extension EXCEPT !.config = Lookup(cfg, extension.name).config]
    ELSE extension

\* setup_wizard(app) after app.initialize(): the loop over
\* app.config["extensions"] and save_config().  (The answers about the "ai"
\* block change app.config["ai"] only, which the model does not hold.)
SetupWizard ==
    /\ pc = "setup_wizard"
    /\ \E answers \in [1..Len(config) -> WizardAnswers] :
          LET cfg == [i \in 1..Len(config) |-> WizardBlock(config[i], answers[i])]
          IN  /\ config' = cfg
              /\ extensions' = [j \in 1..Len(extensions) |->
                                   AliasedEntry(extensions[j], cfg)]
    /\ output' = "Configuration saved successfully!"
    /\ exitCode' = 0
    /\ pc' = "done"
    /\ UNCHANGED <<ai_config, initialized, idx, data, summary, envVars,
                   cliVars, initCalled, loadAttempts, collected, collectCalls,
                   backendCalls, requests, promptSent>>

\* install_extension(app, name) after app.initialize(): nothing is done
\* when the user's directory has a file of that name; else the template is
\* written there and a block is added to the configuration when it has
\* none for the name.
InstallExtension ==
    /\ pc = "install_extension"
    /\ \E name \in InstallNames :
          IF name \in userFiles
          THEN /\ output' = "already exists"
               /\ UNCHANGED <<userFiles, config>>
          ELSE /\ output' = "created"
               /\ userFiles' = userFiles \cup {name}
               /\ config' = IF name \in Keys(config) THEN config
                            ELSE Append(config,
                                   [name |-> name, keys |-> BlockKeys,
                                    enabled |-> TRUE, config |-> EmptyConfig])
    /\ exitCode' = 0
    /\ pc' = "done"
    /\ UNCHANGED <<ai_config, extensions, initialized, idx, data, summary,
                   builtinFiles, cliVars, initCalled, loadAttempts, collected,
                   collectCalls, backendCalls, requests, promptSent>>

NextCli ==
    \/ Main
    \/ LoadConfigCli
    \/ LoadAiProvider
    \/ LoadBuiltin
    \/ InitializeReturns
    \/ CollectBuiltin
    \/ ProcessData
    \/ ShowConfig
    \/ SetupWizard
    \/ InstallExtension

\* One process started from the command line, over the four actions.
SpecCli == InitCli /\ [][NextCli]_vars

\* The content of the mapping a connector module's _config refers to.
HeldConfig(n) ==
    IF mods[n].config_ref = "entry" /\ n \in Keys(config)
    THEN Lookup(config, n).config
    ELSE EmptyConfig

\* The step is the call of initialize(config) of connector n's module.
OwnInitialize(n) ==
    /\ pc = "load_extensions"
    /\ Len(loadAttempts') = Len(loadAttempts) + 1
    /\ loadAttempts'[Len(loadAttempts')].name = n
    /\ InitializeCalled(loadAttempts'[Len(loadAttempts')].outcome)

\* The step is the call of collect_data() of connector n's module.
OwnCollect(n) ==
    /\ pc = "collect_data"
    /\ idx <= Len(extensions)
    /\ extensions[idx].name = n
    /\ collected'[n] # collected[n]

\* C22 (as stated): no step changes the session or the config a connector
\* holds except that connector's own initialize, and the steps of one
\* connector (initialize, collect_data) change nothing of another's.
C22_OnlyOwnInitializeChanges ==
    [][\A n \in ExtNames :
          /\ (mods'[n].session # mods[n].session \/ HeldConfig(n)' # HeldConfig(n))
                => OwnInitialize(n)
          /\ mods'[n] # mods[n] => (OwnInitialize(n) \/ OwnCollect(n))]_vars

\* C22 (amended): a connector's _session is assigned and its _config is
\* bound only by that connector's own initialize, and a step of one
\* connector (initialize, collect_data) changes no global of another's
\* module; but the mapping _config is bound to is the configuration's own
\* block, so what a loaded connector's _config holds also changes, without
\* any initialize, when the setup wizard writes a value into that block.
C22_SessionPrivateConfigAliased ==
    [][\A n \in ExtNames :
          /\ (mods'[n].session # mods[n].session
                \/ mods'[n].config_ref # mods[n].config_ref)
                => OwnInitialize(n)
          /\ HeldConfig(n)' # HeldConfig(n)
                => (OwnInitialize(n) \/ pc = "setup_wizard")
          /\ mods'[n] # mods[n] => (OwnInitialize(n) \/ OwnCollect(n))]_vars

\* C22 witness: the setup wizard ended after initialize() had loaded two
\* connectors, one with a session and one without; the one without now
\* holds a config with credentials (written by the wizard) and still has
\* no session.
C22_Witness ==
    /\ pc = "done"
    /\ cli = "setup"
    /\ \E n, m \in ExtNames :
          /\ Loaded(n) /\ Loaded(m)
          /\ mods[m].session = "session"
          /\ mods[n].session = "None"
          /\ mods[n].config_ref = "entry"
          /\ HeldConfig(n) = "cfg_b"

(***************************************************************************)
(* A caller that keeps the DevAssist object and calls run() on it again.   *)
(***************************************************************************)

\* Number of further calls of run() on the same object.
MaxReruns == 1

\* run() has returned and the caller calls it again on the same object: a
\* new round, whose records (which collect_data() did what, which backend
\* calls were made, what was printed) start empty.
RunAgain ==
    /\ pc = "done"
    /\ callNo < MaxReruns
    /\ callNo' = callNo + 1
    /\ pc' = "idle"
    /\ collected' = [n \in ExtNames |-> "none"]
    /\ collectCalls' = <<>>
    /\ backendCalls' = <<>>
    /\ requests' = 0
    /\ promptSent' = NoPrompt
    /\ summary' = "None"
    /\ output' = "None"
    /\ exitCode' = -1
    /\ UNCHANGED <<config, ai_config, extensions, initialized, idx, data,
                   envVars, cli, mods, remote, returned, initCalled,
                   loadAttempts>>

NextReentry ==
    \/ Next
    \/ RunAgain

\* The pipeline run more than once on one object, with user-supplied
\* connector files.
SpecReentry == InitUserFiles /\ [][NextReentry]_vars

\* Number of times initialize(config) of connector n's module was called.
InitializeCalls(n) ==
    Cardinality({k \in 1..Len(loadAttempts) :
                    /\ loadAttempts[k].name = n
                    /\ InitializeCalled(loadAttempts[k].outcome)})

\* C23: once initialize() has set initialized, no later step (a later call
\* of initialize() included) reads the configuration again, resolves the
\* backend again, or loads or initializes a connector: the flag stays set,
\* config, ai_config and the registry stay what they are, no load is
\* attempted, and the process never is in load_config, load_ai_provider or
\* load_extensions again; so each connector's initialize is called at most
\* once per process.
C23_InitializeIdempotent ==
    /\ [](\A n \in ExtNames : InitializeCalls(n) <= 1)
    /\ [][initialized =>
            /\ initialized'
            /\ config' = config
            /\ ai_config' = ai_config
            /\ extensions' = extensions
            /\ initCalled' = initCalled
            /\ loadAttempts' = loadAttempts
            /\ pc' \notin {"load_config", "load_ai_provider",
                           "load_extensions"}]_vars

\* C23 witness: a second call of run() on an initialized object has ended:
\* it collected from a connector that the first call's initialize() had
\* loaded and initialized.
C23_Witness ==
    /\ callNo = 1
    /\ pc = "done"
    /\ initialized
    /\ collectCalls # <<>>
    /\ \E n \in ExtNames : InitializeCalls(n) = 1 /\ collected[n] = "data"

\* Connector n was loaded in this process and the "config" mapping its
\* initialize was given had no credentials.
LoadedWithoutCredentials(n) ==
    /\ Loaded(n)
    /\ n \in Keys(config)
    /\ ~(Lookup(config, n).config = "cfg_b")

\* C24: a loaded bundled connector whose initialize was given a config
\* without credentials has no session; when the run calls its
\* collect_data(), the module makes no remote request and returns an
\* {"error": ...} dict, which collect_data stores under the connector's
\* name, and which is in the context the backend is handed when the
\* backend is asked.
C24_NoCredentialsErrorMarker ==
    \A n \in ExtNames :
       LoadedWithoutCredentials(n) =>
          /\ mods[n].session = "None"
          /\ ~mods[n].requested
          /\ collected[n] \in {"none", "error"}
          /\ (collected[n] = "error") =>
                /\ n \in Keys(data)
                /\ ValueOf(n) = "error"
                /\ (promptSent # NoPrompt) =>
                      [source |-> n, json |-> "error"] \in SectionsOf(promptSent)
                /\ (pc = "done") => Len(backendCalls) = 1

\* C24 witness: a run ended in which a connector loaded without
\* credentials returned its error marker, a connector with credentials
\* made requests and returned data, and the backend was handed a prompt
\* with the error marker in the first connector's section.
C24_Witness ==
    /\ pc = "done"
    /\ cli = "run"
    /\ \E n, m \in ExtNames :
          /\ LoadedWithoutCredentials(n)
          /\ collected[n] = "error"
          /\ ~mods[n].requested
          /\ ValueOf(n) = "error"
          /\ mods[m].requested
          /\ collected[m] = "data"
          /\ [source |-> n, json |-> "error"] \in SectionsOf(promptSent)

\* Nothing of the connectors or of the backend has been touched: no load
\* was attempted, the registry is empty, no module's initialize or
\* collect_data() was called, no module global was set, and no backend
\* call was made.
NothingActivated ==
    /\ loadAttempts = <<>>
    /\ extensions = <<>>
    /\ initCalled = {}
    /\ mods = [n \in ExtNames |-> ModuleGlobals]
    /\ collectCalls = <<>>
    /\ \A n \in ExtNames : collected[n] = "none"
    /\ backendCalls = <<>>
    /\ requests = 0
    /\ promptSent = NoPrompt

\* C25: whatever action the command line asks for (run, --config, --setup,
\* --install-extension), the backend is resolved before anything of the
\* connectors is touched: up to the end of load_ai_provider nothing is
\* activated; a process whose backend cannot be resolved (unknown provider,
\* or a backend library that fails to import) ends there with status 1,
\* with nothing activated and initialized unset; and an action goes on
\* past initialize() (to the loop of load_extensions, to collecting, to
\* printing the configuration, to the wizard, to installing) only with a
\* provider that load_ai_provider knows.
C25_BackendResolvedFirst ==
    /\ pc \in {"idle", "load_config", "load_ai_provider", "exit"}
          => NothingActivated /\ ~initialized
    /\ pc = "exit" => exitCode = 1 /\ cli \in CliActions
    /\ pc \notin {"idle", "load_config", "load_ai_provider", "exit"}
          => ai_config.provider \in {"local", "claude", "openai"}
    /\ pc \in {"collect_data", "hung", "show_config", "setup_wizard",
               "install_extension", "done"} => initialized

\* C25 witness: the setup action ended with status 1 in load_ai_provider,
\* on a configuration that enables connectors whose files exist, with
\* nothing activated.
C25_Witness ==
    /\ pc = "exit"
    /\ cli = "setup"
    /\ exitCode = 1
    /\ ai_config.provider = "other"
    /\ \E i \in 1..Len(config) :
          config[i].enabled /\ config[i].name \in userFiles
    /\ NothingActivated

====
